---- MODULE Spec2Model ----
(***************************************************************************)
(* The Triggerable mixin of src/src/Triggerable.js: two reactive flags     *)
(* (isDisplaying, isShowing), the deferred open/close lifecycle built on   *)
(* $nextTick and transition(), the promise-based default confirm/cancel    *)
(* callbacks, and the DOM trigger wiring done at mount.                    *)
(*                                                                         *)
(* A string is a sequence of atoms; the atom " " is one space character    *)
(* and every other atom is a run of non-space characters, so that          *)
(* <<"click", " ", "manual">> is the string 'click manual'.                *)
(***************************************************************************)
EXTENDS Integers, Sequences, FiniteSets, TLC

\* ---------------------------------------------------------------- bounds
MaxCalls == 2          \* method calls per run
MaxShowChanges == 3    \* changes of the show prop per run
MaxTriggerLen == 3     \* atoms in a trigger string
MaxDeliveries == 1     \* DOM events per run

VARIABLES
    trigger,        \* props.trigger
    target,         \* props.target
    show,           \* props.show
    mounted,        \* has mounted() run
    isShowing,      \* data().isShowing
    isDisplaying,   \* data().isDisplaying
    tickQueue,      \* callbacks handed to $nextTick, not yet run (FIFO)
    transitions,    \* transition() promises not yet resolved
    listeners,      \* listeners added with addEventListener, in order
    promises,       \* promises returned by the default confirm/cancel
    step,           \* what the last step did, in order
    lastEmitted,    \* the latest of the 'open' / 'close' events emitted
    nOps,           \* open/close calls that passed their guard
    nCalls,         \* method calls and DOM events so far
    nShow           \* show prop changes so far

vars == <<trigger, target, show, mounted, isShowing, isDisplaying, tickQueue,
          transitions, listeners, promises, step, lastEmitted, nOps,
          nCalls, nShow>>

Last(s) == s[Len(s)]

\* ------------------------------------------------------------- the props
Space == " "
WordAtoms == {"click", "manual"}
Atoms == WordAtoms \cup {Space}

Manual == <<"manual">>      \* the string 'manual'
Click == <<"click">>        \* the string 'click', props.trigger.default

RECURSIVE SeqsUpTo(_, _)
SeqsUpTo(S, n) ==
    IF n = 0 THEN {<<>>}
    ELSE LET shorter == SeqsUpTo(S, n - 1)
         IN  shorter \cup {Append(s, x) : s \in shorter, x \in S}

StringTrigger(s) == [isString |-> TRUE, str |-> s, arr |-> <<>>]
ArrayTrigger(a) == [isString |-> FALSE, str |-> <<>>, arr |-> a]

\* props.trigger: type [String, Array]
TriggerSpecs ==
    {StringTrigger(s) : s \in SeqsUpTo(Atoms, MaxTriggerLen)}
    \cup {ArrayTrigger(a) : a \in SeqsUpTo({<<w>> : w \in WordAtoms}, 2)}

\* the document the selectors are resolved against
Elements == {"btn1", "btn2"}
Selectors == {"#btn1", ".btn", ".none"}

\* document.querySelectorAll(selector), in document order
querySelectorAll(selector) ==
    CASE selector = "#btn1" -> <<"btn1">>
      [] selector = ".btn" -> <<"btn1", "btn2">>
      [] OTHER -> <<>>

\* props.target: type [Function, String, Element, Boolean]; a function target
\* returns an element or a selector string
TargetSpecs ==
    {[kind |-> "boolean", bool |-> b, el |-> "", sel |-> "", ret |-> ""] : b \in BOOLEAN}
    \cup {[kind |-> "element", bool |-> FALSE, el |-> e, sel |-> "", ret |-> ""] : e \in Elements}
    \cup {[kind |-> "string", bool |-> FALSE, el |-> "", sel |-> s, ret |-> ""] : s \in Selectors}
    \cup {[kind |-> "function", bool |-> FALSE, el |-> e, sel |-> "", ret |-> "element"] : e \in Elements}
    \cup {[kind |-> "function", bool |-> FALSE, el |-> "", sel |-> s, ret |-> "string"] : s \in Selectors}

\* ------------------------------------------------------- trigger wiring
\* String.prototype.split(' ')
RECURSIVE SplitFrom(_, _, _)
SplitFrom(s, word, done) ==
    IF s = <<>> THEN Append(done, word)
    ELSE IF Head(s) = Space THEN SplitFrom(Tail(s), <<>>, Append(done, word))
    ELSE SplitFrom(Tail(s), Append(word, Head(s)), done)

split(s) == SplitFrom(s, <<>>, <<>>)

\* isString(this.trigger) ? this.trigger.split(' ') : this.trigger
triggerNames(trg) == IF trg.isString THEN split(trg.str) ELSE trg.arr

\* initializeTrigger(el): one addEventListener per entry
initializeTrigger(trg, el) ==
    [i \in 1..Len(triggerNames(trg)) |-> [el |-> el, type |-> triggerNames(trg)[i]]]

\* .forEach(el => this.initializeTrigger(el))
RECURSIVE initializeEach(_, _)
initializeEach(trg, els) ==
    IF els = <<>> THEN <<>>
    ELSE initializeTrigger(trg, Head(els)) \o initializeEach(trg, Tail(els))

\* initializeSelector, were it to use querySelector (the first match only)
initializeSelectorFirst(trg, selector) ==
    IF querySelectorAll(selector) = <<>> THEN <<>>
    ELSE initializeTrigger(trg, Head(querySelectorAll(selector)))

\* initializeSelector(selector)
initializeSelector(trg, selector) == initializeEach(trg, querySelectorAll(selector))

\* this.target as a truthy value
truthy(tgt) == IF tgt.kind = "boolean" THEN tgt.bool ELSE TRUE

\* this.trigger !== 'manual'
notManual(trg) == ~(trg.isString /\ trg.str = Manual)

\* initializeTarget(): the listeners it adds
initializeTarget(trg, tgt) ==
    IF truthy(tgt) /\ notManual(trg)
    THEN IF tgt.kind = "function"
         THEN IF tgt.ret = "string"
              THEN initializeSelector(trg, tgt.sel)
              ELSE initializeTrigger(trg, tgt.el)
         ELSE IF tgt.kind = "element"
         THEN initializeTrigger(trg, tgt.el)
         ELSE initializeSelector(trg, IF tgt.kind = "string" THEN tgt.sel ELSE "true")
    ELSE <<>>

\* ------------------------------------------------ events and callbacks
\* the argument of confirm(e) / cancel(e): an event, as it is once the
\* 'confirm' / 'cancel' listeners have run, or undefined (no argument)
Undefined == [isEvent |-> FALSE, defaultPrevented |-> FALSE]
Event(prevented) == [isEvent |-> TRUE, defaultPrevented |-> prevented]
Events == {Event(b) : b \in BOOLEAN}

\* the fn argument of open(fn) / close(fn)
NoFn == [kind |-> "none", p |-> 0]             \* no argument: isFunction(fn) fails
UserFn == [kind |-> "user", p |-> 0]           \* a caller's function
ResolveFn(p) == [kind |-> "resolve", p |-> p]  \* () => resolve(e) of promise p
isFunction(fn) == fn.kind # "none"

Entry(type, name, op, p) == [type |-> type, name |-> name, op |-> op, p |-> p]

\* a run of code of the instance, at its start: what it has changed and, in
\* log, what it has done so far
Sync == [tickQueue |-> tickQueue, promises |-> promises, log |-> <<>>, nOps |-> nOps]

Logged(st, entry) == [st EXCEPT !.log = Append(@, entry)]

\* resolve(value) / reject(reason) of promise p: a settled promise stays as it is
settle(st, p, state, value) ==
    IF st.promises[p].state = "pending"
    THEN Logged([st EXCEPT !.promises[p].state = state, !.promises[p].value = value],
                Entry("settle", state, 0, p))
    ELSE st

\* this.$nextTick(callback)
nextTick(st, op, fn) ==
    [st EXCEPT !.nOps = @ + 1,
               !.tickQueue = Append(@, [op |-> op, id |-> st.nOps + 1, fn |-> fn])]

\* the guard of open(), were it to test isShowing
openGuardShowing == ~isShowing

\* the guard of open(): !this.isDisplaying
openGuard == ~isDisplaying

\* open(fn), the synchronous part
open(st, fn) ==
    IF openGuard
    THEN nextTick(Logged(st, Entry("call", "open", st.nOps + 1, fn.p)), "open", fn)
    ELSE Logged(st, Entry("call", "open", 0, fn.p))

\* the guard of close(), were it to test isDisplaying
closeGuardDisplaying == isDisplaying

\* the guard of close(): this.isShowing
closeGuard == isShowing

\* close(fn), the synchronous part
close(st, fn) ==
    IF closeGuard
    THEN nextTick(Logged(st, Entry("call", "close", st.nOps + 1, fn.p)), "close", fn)
    ELSE Logged(st, Entry("call", "close", 0, fn.p))

\* new Promise(executor): the promise the executor is about to run for
newPromise(st, kind, e) ==
    [st EXCEPT !.promises = Append(@, [kind |-> kind, e |-> e,
                                       state |-> "pending", value |-> ""])]

\* the executor, were it to close whatever e.defaultPrevented is
afterEmitIgnoringPrevented(st, p, e, message) ==
    IF ~e.isEvent THEN settle(st, p, "rejected", "TypeError")
    ELSE close(st, ResolveFn(p))

\* the executor of the default confirm/cancel after its $emit: reading
\* e.defaultPrevented of undefined throws, and the Promise constructor turns
\* the throw into a rejection
afterEmit(st, p, e, message) ==
    IF ~e.isEvent THEN settle(st, p, "rejected", "TypeError")
    ELSE IF ~e.defaultPrevented THEN close(st, ResolveFn(p))
    ELSE settle(st, p, "rejected", message)

\* props.cancel.default
cancel(st, e) ==
    LET p == Len(st.promises) + 1
        created == newPromise(Logged(st, Entry("call", "cancel", 0, p)), "cancel", e)
    IN  afterEmit(Logged(created, Entry("emit", "cancel", 0, p)), p, e,
                  "Cancelation rejected!")

\* props.confirm.default
confirm(st, e) ==
    LET p == Len(st.promises) + 1
        created == newPromise(Logged(st, Entry("call", "confirm", 0, p)), "confirm", e)
    IN  afterEmit(Logged(created, Entry("emit", "confirm", 0, p)), p, e,
                  "Confirmation rejected!")

\* toggle(): this.cancel() is called without an argument
toggle(st) ==
    IF ~isShowing
    THEN open(Logged(st, Entry("call", "toggle", 0, 0)), NoFn)
    ELSE cancel(Logged(st, Entry("call", "toggle", 0, 0)), Undefined)

\* the listener added by initializeTrigger, run once
listener(st) == Logged(toggle(st), Entry("listener", "preventDefault", 0, 0))

\* one DOM event dispatched to el: every listener added for (el, type) runs
RECURSIVE dispatch(_, _, _)
dispatch(st, ls, l) ==
    IF ls = <<>> THEN st
    ELSE dispatch(IF Head(ls) = l THEN listener(st) ELSE st, Tail(ls), l)

\* mounted(), were it to ignore the show prop
mountedOpenNever(st) == st

\* mounted(): if (this.show) this.open()
mountedOpen(st) == IF show THEN open(st, NoFn) ELSE st

\* the open callback, were it to set both flags at once
openTickFlagsEager == [isDisplaying |-> TRUE, isShowing |-> TRUE]

\* the callback open() hands to $nextTick
openTickFlags == [isDisplaying |-> TRUE, isShowing |-> isShowing]

\* the callback close() hands to $nextTick
closeTickFlags == [isDisplaying |-> isDisplaying, isShowing |-> FALSE]

\* the .then callback of open()'s transition
openDoneFlags == [isDisplaying |-> isDisplaying, isShowing |-> TRUE]

\* the close completion, were it to leave isDisplaying as it is
closeDoneFlagsKept == [isDisplaying |-> isDisplaying, isShowing |-> isShowing]

\* the .then callback of close()'s transition
closeDoneFlags == [isDisplaying |-> FALSE, isShowing |-> isShowing]

\* if (isFunction(fn)) fn(this)
callFn(st, t) ==
    IF ~isFunction(t.fn) THEN st
    ELSE IF t.fn.kind = "resolve"
    THEN settle(Logged(st, Entry("fn", "resolve", t.id, t.fn.p)), t.fn.p, "resolved", "e")
    ELSE Logged(st, Entry("fn", "user", t.id, 0))

\* the show watcher, were it to set both flags
showWatcherBoth(value) == [isDisplaying |-> value, isShowing |-> value]

\* watch.show
showWatcher(value) == [isDisplaying |-> isDisplaying, isShowing |-> value]

\* props.showClass: type String, default 'show'
ShowClasses == {"show", "in", "active"}

\* computed triggerableClasses, were it to follow isDisplaying
triggerableClassesDisplaying(showClass) == [class \in {showClass} |-> isDisplaying]

\* computed triggerableClasses: { [this.showClass]: this.isShowing }
triggerableClasses(showClass) == [class \in {showClass} |-> isShowing]

\* ---------------------------------------------------------------- actions
Commit(st) ==
    /\ tickQueue' = st.tickQueue
    /\ promises' = st.promises
    /\ step' = st.log
    /\ nOps' = st.nOps

CallWithin(st, max) ==
    /\ mounted
    /\ nCalls < max
    /\ nCalls' = nCalls + 1
    /\ Commit(st)
    /\ UNCHANGED <<trigger, target, show, mounted, isShowing, isDisplaying,
                   transitions, listeners, lastEmitted, nShow>>

Call(st) == CallWithin(st, MaxCalls)

\* data() and the props the instance is created with
InitState ==
    /\ show \in BOOLEAN
    /\ mounted = FALSE
    /\ isShowing = FALSE
    /\ isDisplaying = FALSE
    /\ tickQueue = <<>>
    /\ transitions = {}
    /\ listeners = <<>>
    /\ promises = <<>>
    /\ step = <<>>
    /\ lastEmitted = "none"
    /\ nOps = 0
    /\ nCalls = 0
    /\ nShow = 0

\* props.trigger.default and props.target.default: no listener is added
Init ==
    /\ trigger = StringTrigger(Click)
    /\ target = [kind |-> "boolean", bool |-> FALSE, el |-> "", sel |-> "", ret |-> ""]
    /\ InitState

\* every trigger and target of the bounded sets
InitWiring ==
    /\ trigger \in TriggerSpecs
    /\ target \in TargetSpecs
    /\ InitState

\* mounted()
Mount ==
    /\ ~mounted
    /\ mounted' = TRUE
    /\ listeners' = initializeTarget(trigger, target)
    /\ Commit(mountedOpen(Logged(Sync, Entry("mounted", "", 0, 0))))
    /\ UNCHANGED <<trigger, target, show, isShowing, isDisplaying, transitions,
                   lastEmitted, nCalls, nShow>>

Open == \E fn \in {NoFn, UserFn} : Call(open(Sync, fn))

Close == \E fn \in {NoFn, UserFn} : Call(close(Sync, fn))

Toggle == Call(toggle(Sync))

Confirm == \E e \in Events : Call(confirm(Sync, e))

Cancel == \E e \in Events : Call(cancel(Sync, e))

\* a DOM event of a type and on an element that has a listener
DomEvent ==
    \E i \in 1..Len(listeners) :
        CallWithin(dispatch(Sync, listeners, listeners[i]), MaxDeliveries)

\* the parent changes the show prop; the show watcher runs
ChangeShow ==
    /\ mounted
    /\ nShow < MaxShowChanges
    /\ nShow' = nShow + 1
    /\ show' = ~show
    /\ isShowing' = showWatcher(~show).isShowing
    /\ isDisplaying' = showWatcher(~show).isDisplaying
    /\ step' = <<Entry("show", IF show THEN "false" ELSE "true", 0, 0)>>
    /\ UNCHANGED <<trigger, target, mounted, tickQueue, transitions, listeners,
                   promises, lastEmitted, nOps, nCalls>>

\* the oldest $nextTick callback runs
Tick ==
    /\ tickQueue # <<>>
    /\ LET t == Head(tickQueue)
           flags == IF t.op = "open" THEN openTickFlags ELSE closeTickFlags
       IN  /\ isDisplaying' = flags.isDisplaying
           /\ isShowing' = flags.isShowing
           /\ transitions' = transitions \cup {t}
           /\ step' = <<Entry("tick", t.op, t.id, t.fn.p)>>
    /\ tickQueue' = Tail(tickQueue)
    /\ UNCHANGED <<trigger, target, show, mounted, listeners, promises,
                   lastEmitted, nOps, nCalls, nShow>>

\* a transition() promise resolves and its .then callback runs
TransitionDone ==
    \E t \in transitions :
        LET flags == IF t.op = "open" THEN openDoneFlags ELSE closeDoneFlags
            done == Logged(Sync, Entry("done", t.op, t.id, t.fn.p))
        IN  /\ isDisplaying' = flags.isDisplaying
            /\ isShowing' = flags.isShowing
            /\ transitions' = transitions \ {t}
            /\ Commit(Logged(callFn(done, t), Entry("emit", t.op, t.id, 0)))
            /\ lastEmitted' = t.op
            /\ UNCHANGED <<trigger, target, show, mounted, listeners, nCalls, nShow>>

Next ==
    \/ Mount
    \/ Open
    \/ Close
    \/ Toggle
    \/ Confirm
    \/ Cancel
    \/ ChangeShow
    \/ Tick
    \/ TransitionDone

\* the instance with its default trigger wiring, driven by method calls and
\* by the show prop
Spec == Init /\ [][Next]_vars

\* every $nextTick callback runs and every transition completes
FairSpec == Spec /\ WF_vars(Tick) /\ WF_vars(TransitionDone)

NextWiring ==
    \/ Mount
    \/ DomEvent
    \/ Tick
    \/ TransitionDone

\* the instance driven by DOM events alone, for every trigger and target
WiringSpec == InitWiring /\ [][NextWiring]_vars

TypeOK ==
    /\ isShowing \in BOOLEAN
    /\ isDisplaying \in BOOLEAN
    /\ nCalls \in 0..MaxCalls
    /\ nShow \in 0..MaxShowChanges

\* ----------------------------------------------------------------- claims
Range(q) == {q[i] : i \in 1..Len(q)}
Scheduled(op) == {t \in Range(tickQueue) : t.op = op}
ScheduledNext(op) == {t \in Range(tickQueue') : t.op = op}
Started(op) == {t \in transitions : t.op = op}
StartedNext(op) == {t \in transitions' : t.op = op}
StepIs(type, name) == step # <<>> /\ step[1].type = type /\ step[1].name = name
StepIsNext(type, name) == step' # <<>> /\ step'[1].type = type /\ step'[1].name = name
Quiescent == tickQueue = <<>> /\ transitions = {}

\* C1: in every reachable state, isShowing implies isDisplaying
C1_ShowingImpliesDisplaying == isShowing => isDisplaying

\* C2: when no open/close nextTick callback is pending and no transition is
\* unfinished, the two flags are equal
C2_FlagsEqualWhenQuiescent == Quiescent => (isDisplaying = isShowing)

\* C3: open() on an instance that is not displaying changes no flag in the
\* call itself; its nextTick callback sets isDisplaying to true and leaves
\* isShowing alone; isShowing is set to true by open() only in the step that
\* completes a transition started by such a callback
C3_OpenOrder ==
    [][/\ \A t \in ScheduledNext("open") \ Scheduled("open") :
            ~isDisplaying /\ isDisplaying' = isDisplaying /\ isShowing' = isShowing
       /\ \A t \in StartedNext("open") \ Started("open") :
            /\ t = Head(tickQueue)
            /\ isDisplaying'
            /\ isShowing' = isShowing
       /\ \A t \in Started("open") \ StartedNext("open") : isShowing'
       /\ (isShowing' /\ ~isShowing /\ ~StepIsNext("show", "true"))
            => Started("open") \ StartedNext("open") # {}]_vars

\* an open() that passed its guard has run to its end on a closed instance
C3_Opened ==
    /\ StepIs("done", "open")
    /\ isShowing /\ isDisplaying
    /\ nShow = 0

\* C4: close() on a showing instance changes no flag in the call itself; its
\* nextTick callback sets isShowing to false and leaves isDisplaying alone;
\* the completion of its transition sets isDisplaying to false, and both
\* flags are false once that close has completed
C4_CloseOrderBothFalse ==
    [][/\ \A t \in ScheduledNext("close") \ Scheduled("close") :
            isShowing /\ isDisplaying' = isDisplaying /\ isShowing' = isShowing
       /\ \A t \in StartedNext("close") \ Started("close") :
            /\ t = Head(tickQueue)
            /\ ~isShowing'
            /\ isDisplaying' = isDisplaying
       /\ \A t \in Started("close") \ StartedNext("close") :
            ~isDisplaying' /\ ~isShowing']_vars

\* C5: toggle() calls open() when isShowing is false, and when isShowing is
\* true it closes the element through the cancel callback: a close is
\* scheduled
C5_ToggleClosesWhenShowing ==
    [][StepIsNext("call", "toggle") =>
          IF isShowing
          THEN ScheduledNext("close") \ Scheduled("close") # {}
          ELSE step'[2].type = "call" /\ step'[2].name = "open"]_vars

Rejection(kind) ==
    IF kind = "confirm" THEN "Confirmation rejected!" ELSE "Cancelation rejected!"
NewPromises == (Len(promises) + 1)..Len(promises')

MountedOp == [op |-> "open", id |-> 1, fn |-> NoFn]
MountOpened == StepIs("mounted", "") /\ Len(step) = 2
Untouched == nCalls = 0 /\ nShow = 0

C8_Unconditional == MountOpened ~> (isShowing /\ isDisplaying)

Count(q, x) == Cardinality({i \in 1..Len(q) : q[i] = x})
ManualSpec(trg) == Manual \in Range(triggerNames(trg))
Disabled(tgt) == tgt.kind = "boolean" /\ ~tgt.bool
ResolvedElements(tgt) ==
    CASE tgt.kind = "element" -> {tgt.el}
      [] tgt.kind = "function" /\ tgt.ret = "element" -> {tgt.el}
      [] tgt.kind = "function" /\ tgt.ret = "string" -> Range(querySelectorAll(tgt.sel))
      [] tgt.kind = "string" -> Range(querySelectorAll(tgt.sel))
      [] OTHER -> {}

\* C9: with a manual trigger spec (the string 'manual', a list containing
\* 'manual', or 'manual' among other names) or a disabled target, no
\* listener is added
C9_ManualAddsNoListener ==
    (mounted /\ (ManualSpec(trigger) \/ Disabled(target))) => listeners = <<>>

\* C10 as stated: exactly one listener per (resolved element, trigger name)
\* pair, and no other listener
C10_OneListenerPerPair ==
    (mounted /\ ~ManualSpec(trigger) /\ ~Disabled(target)) =>
        /\ \A el \in ResolvedElements(target), name \in Range(triggerNames(trigger)) :
              Count(listeners, [el |-> el, type |-> name]) = 1
        /\ \A l \in Range(listeners) :
              l.el \in ResolvedElements(target) /\ l.type \in Range(triggerNames(trigger))

IsToggleCall(x) == x.type = "call" /\ x.name = "toggle"
IsPreventDefault(x) == x.type = "listener" /\ x.name = "preventDefault"
ListenerRuns(q) == SelectSeq(q, LAMBDA x : IsToggleCall(x) \/ IsPreventDefault(x))

\* C10: for a non-manual trigger spec and an enabled target, the listeners
\* on each resolved target element are one per entry of the trigger spec (a
\* name that occurs k times gives k listeners), no other element has any;
\* one DOM event runs every listener of its element and type, and each run
\* calls toggle() once and then prevents the event's default
C10_ListenerPerEntry ==
    [][/\ (mounted' /\ ~ManualSpec(trigger) /\ ~Disabled(target)) =>
            /\ \A el \in Elements, name \in Range(triggerNames(trigger)) :
                  Count(listeners', [el |-> el, type |-> name]) =
                      IF el \in ResolvedElements(target)
                      THEN Count(triggerNames(trigger), name) ELSE 0
            /\ Len(listeners') =
                  Cardinality(ResolvedElements(target)) * Len(triggerNames(trigger))
       /\ (nCalls' = nCalls + 1) =>
            LET runs == ListenerRuns(step')
            IN  /\ Len(runs) > 0
                /\ IsToggleCall(step'[1])
                /\ IsPreventDefault(Last(step'))
                /\ \A i \in 1..Len(runs) :
                      IF i % 2 = 1 THEN IsToggleCall(runs[i]) ELSE IsPreventDefault(runs[i])
                /\ \E l \in Range(listeners) : Len(runs) = 2 * Count(listeners, l)]_vars

\* an event has run two listeners registered for one name on one element
C10_DeliveredTwice ==
    /\ mounted
    /\ trigger = StringTrigger(<<"click", Space, "click">>)
    /\ Len(listeners) = 4
    /\ Len(ListenerRuns(step)) = 4

CallsOf(q, name) == {i \in 1..Len(q) : q[i].type = "call" /\ q[i].name = name}
NoEffect ==
    /\ isDisplaying' = isDisplaying
    /\ isShowing' = isShowing
    /\ transitions' = transitions
    /\ nOps' = nOps
    /\ lastEmitted' = lastEmitted
    /\ \A i \in 1..Len(step') : step'[i].type \notin {"fn", "emit", "done", "tick"}
                                 \/ (step'[i].type = "emit" /\ step'[i].name \in {"confirm", "cancel"})

\* C11: open(fn) called while isDisplaying is true schedules nothing, leaves
\* both flags as they are, invokes no fn and emits no 'open'; no operation
\* is recorded for it that a later step could complete
C11_OpenWhileDisplayingIsNoOp ==
    [][(mounted /\ isDisplaying /\ CallsOf(step', "open") # {}) =>
          /\ \A i \in CallsOf(step', "open") : step'[i].op = 0
          /\ tickQueue' = tickQueue
          /\ NoEffect]_vars

\* a toggle() issued during the closing transition has called open() in vain
C11_ToggleWhileClosing ==
    /\ step = <<Entry("call", "toggle", 0, 0), Entry("call", "open", 0, 0)>>
    /\ isDisplaying /\ ~isShowing
    /\ Started("close") # {}
    /\ tickQueue = <<>>

\* C12: close(fn) called while isShowing is false schedules nothing, leaves
\* both flags as they are, invokes no fn and emits no 'close'; no operation
\* is recorded for it that a later step could complete
C12_CloseWhileNotShowingIsNoOp ==
    [][(mounted /\ ~isShowing /\ CallsOf(step', "close") # {}) =>
          /\ \A i \in CallsOf(step', "close") : step'[i].op = 0
          /\ tickQueue' = tickQueue
          /\ NoEffect]_vars

\* a close(fn) issued during the opening transition has been dropped
C12_CloseWhileOpening ==
    /\ step = <<Entry("call", "close", 0, 0)>>
    /\ isDisplaying /\ ~isShowing
    /\ Started("open") # {}
    /\ tickQueue = <<>>

\* C13: every promise returned by the default confirm/cancel is settled once
\* every nextTick callback has run and every transition has completed
C13_SettledWhenQuiescent ==
    Quiescent => \A p \in 1..Len(promises) : promises[p].state # "pending"

\* C14: in a run of open/close/toggle/confirm/cancel calls (the show prop
\* unchanged), the emitted 'open' and 'close' events alternate, starting
\* with 'open': 'open' is emitted only after no event or after 'close', and
\* 'close' only after 'open'
C14_OpenCloseAlternate ==
    [][(nShow = 0) =>
          /\ (Started("open") \ StartedNext("open") # {}) => lastEmitted \in {"none", "close"}
          /\ (Started("close") \ StartedNext("close") # {}) => lastEmitted = "open"]_vars

\* C15: at most one open or close operation is in flight: a pending nextTick
\* callback or an unfinished transition
C15_OneInFlight == Len(tickQueue) + Cardinality(transitions) <= 1

\* C16: a change of the show prop writes the new value into isShowing and
\* leaves isDisplaying as it is; it calls neither open() nor close(), starts
\* no transition and emits nothing
C16_ShowWritesIsShowing ==
    [][(show' # show) =>
          /\ isShowing' = show'
          /\ isDisplaying' = isDisplaying
          /\ tickQueue' = tickQueue
          /\ transitions' = transitions
          /\ promises' = promises
          /\ nOps' = nOps
          /\ lastEmitted' = lastEmitted
          /\ \A i \in 1..Len(step') : step'[i].type = "show"]_vars

\* the show prop has become true on a closed instance, and false on an open one
C16_ShowChangedBothWays ==
    /\ StepIs("show", "false")
    /\ ~isShowing /\ isDisplaying
    /\ Quiescent
    /\ nShow = 2

\* C17: the fn of an open(fn) or close(fn) that passed its guard is invoked
\* in the step that completes its transition, before the 'open' / 'close'
\* event, with both flags true for open and both flags false for close (the
\* show prop unchanged)
C17_FnSeesFinalFlags ==
    (nShow = 0) =>
        \A i \in 1..Len(step) :
            step[i].type = "fn" =>
                /\ step[1].type = "done"
                /\ i < Len(step)
                /\ Last(step) = Entry("emit", step[1].name, step[1].op, 0)
                /\ IF step[1].name = "open"
                   THEN isShowing /\ isDisplaying
                   ELSE ~isShowing /\ ~isDisplaying

\* C18: for every showClass, triggerableClasses has the one key showClass
\* and its value is isShowing
C18_ClassFollowsIsShowing ==
    \A c \in ShowClasses :
        /\ DOMAIN triggerableClasses(c) = {c}
        /\ triggerableClasses(c)[c] = isShowing
        /\ (isDisplaying /\ ~isShowing) => ~triggerableClasses(c)[c]

\* the instance is displaying only (opening window): the class is not applied
C18_DisplayingOnly ==
    /\ isDisplaying /\ ~isShowing
    /\ Started("open") # {}
    /\ ~triggerableClasses("show")["show"]

====
